---- MODULE Spec2Model ----
(***************************************************************************)
(* A model of NSEApp.py: the provider fetch loop (get_all_indices_data),   *)
(* its flask-caching memoization, the normalizer/ranker (get_stock_data)   *)
(* behind functools.lru_cache(maxsize=1), the module-level layout that     *)
(* calls get_stock_data twice while the module is imported, and the two    *)
(* Dash callbacks update_table and download_as_excel.                      *)
(*                                                                         *)
(* A DataFrame is [cols |-> set of column names,                           *)
(*                 rows |-> sequence of [label |-> Int, cells |-> f]]      *)
(* where f maps every column to a cell and label is the pandas index       *)
(* label of the row.  A cell is [t, n, d, s]: t is the kind of value       *)
(* ("num" the rational n/d, "str" the text s, "nan", "none", "inf" with    *)
(* sign n).                                                                *)
(***************************************************************************)
EXTENDS Integers, Sequences, FiniteSets, TLC

\* ------------------------------------------------------------------ bounds

\* Most rows the provider returns over the 11 requests of one fetch cycle.
MaxRows == 2
\* Most rows of a raw collection handed to the normalizer in SpecPipe.
MaxPipeRows == 2
\* The clock stops at MaxTime seconds and advances TickSeconds at a time.
MaxTime == 30
TickSeconds == 15
\* Fetch cycles one process may start (the program never starts a second).
MaxCycles == 2

\* ------------------------------------------------------------------- cells

Num(k) == [t |-> "num", n |-> k, d |-> 1, s |-> ""]
Str(x) == [t |-> "str", n |-> 0, d |-> 1, s |-> x]
NaN == [t |-> "nan", n |-> 0, d |-> 1, s |-> ""]
None == [t |-> "none", n |-> 0, d |-> 1, s |-> ""]
Inf(sign) == [t |-> "inf", n |-> sign, d |-> 1, s |-> ""]

\* pandas.isna: NaN and None are the missing-value markers; inf is not.
IsMissing(c) == c.t \in {"nan", "none"}

Abs(k) == IF k < 0 THEN -k ELSE k
Sign(k) == IF k < 0 THEN -1 ELSE IF k > 0 THEN 1 ELSE 0

RECURSIVE Gcd(_, _)
Gcd(a, b) == IF b = 0 THEN a ELSE Gcd(b, a % b)

\* The float n/d (d # 0) as a normal form: positive denominator, lowest terms.
Rat(n, d) ==
    LET g == Gcd(Abs(n), Abs(d))
    IN  [t |-> "num", n |-> (Sign(d) * n) \div g, d |-> Abs(d) \div g, s |-> ""]

\* float64 subtraction (Series.__sub__).
Sub(a, b) ==
    CASE a.t = "num" /\ b.t = "num" -> Rat(a.n * b.d - b.n * a.d, a.d * b.d)
      [] a.t = "inf" /\ b.t = "num" -> a
      [] a.t = "num" /\ b.t = "inf" -> Inf(-b.n)
      [] a.t = "inf" /\ b.t = "inf" -> IF a.n = b.n THEN NaN ELSE a
      [] OTHER -> NaN

\* float64 division (Series.__truediv__): x/0 is +-inf, 0/0 is NaN, no error.
Div(a, b) ==
    CASE a.t = "num" /\ b.t = "num" ->
            IF b.n # 0 THEN Rat(a.n * b.d, a.d * b.n)
            ELSE IF a.n = 0 THEN NaN ELSE Inf(Sign(a.n))
      [] a.t = "inf" /\ b.t = "num" -> Inf(IF b.n < 0 THEN -a.n ELSE a.n)
      [] a.t = "num" /\ b.t = "inf" -> Num(0)
      [] OTHER -> NaN

\* float64 multiplication (Series.__mul__).
Mul(a, b) ==
    CASE a.t = "num" /\ b.t = "num" -> Rat(a.n * b.n, a.d * b.d)
      [] a.t = "inf" /\ b.t = "num" -> IF b.n = 0 THEN NaN ELSE Inf(a.n * Sign(b.n))
      [] a.t = "num" /\ b.t = "inf" -> IF a.n = 0 THEN NaN ELSE Inf(b.n * Sign(a.n))
      [] a.t = "inf" /\ b.t = "inf" -> Inf(a.n * b.n)
      [] OTHER -> NaN

\* a < b for two cells that are numbers or infinities.
Less(a, b) ==
    CASE a.t = "num" /\ b.t = "num" -> a.n * b.d < b.n * a.d
      [] a.t = "inf" /\ b.t = "num" -> a.n < 0
      [] a.t = "num" /\ b.t = "inf" -> b.n > 0
      [] OTHER -> a.n < b.n

\* The texts of the provider's payloads that parse as a number, with the value.
NumericText == ("150" :> 150) @@ ("100" :> 100) @@ ("0" :> 0)

\* pd.to_numeric(..., errors='coerce') on one value: numbers stay, numeric
\* text is parsed, any other text and every missing value becomes NaN.
to_numeric(c) ==
    CASE c.t = "num" -> c
      [] c.t = "inf" -> c
      [] c.t = "str" -> IF c.s \in DOMAIN NumericText THEN Num(NumericText[c.s]) ELSE NaN
      [] OTHER -> NaN

\* --------------------------------------------------------------- DataFrame

\* The fixed index list of get_all_indices_data.
indices ==
    << "NIFTY 50", "NIFTY NEXT 50", "NIFTY MIDCAP 50", "NIFTY SMALLCAP 100",
       "NIFTY 100", "NIFTY 200", "NIFTY 500", "NIFTY MIDCAP 100",
       "NIFTY MIDCAP 150", "NIFTY SMALLCAP 250", "NIFTY MIDSML 400" >>

\* The eight columns get_stock_data reads unconditionally, in code order.
RequiredNumeric ==
    << "totalTradedVolume", "lastPrice", "previousClose", "open",
       "dayHigh", "dayLow", "yearHigh", "yearLow" >>

\* The three columns get_stock_data tests for before reading.
OptionalNumeric == << "totalMktCap", "pe", "vwap" >>

\* The column selection of the returned table.
OutputColumns ==
    { "symbol", "index", "lastPrice", "previousClose", "open", "dayHigh",
      "dayLow", "priceChange", "percentageChange", "yearHigh", "yearLow",
      "totalMktCap", "pe", "vwap" }

Range(q) == { q[k] : k \in DOMAIN q }

\* pd.DataFrame(records): the columns are the union of the records' keys, a
\* key a record lacks is NaN in its row, the labels are 0..n-1.
DataFrame(records) ==
    LET cols == UNION { DOMAIN records[k] : k \in DOMAIN records }
    IN  [cols |-> cols,
         rows |-> [k \in DOMAIN records |->
                     [label |-> k - 1,
                      cells |-> [c \in cols |->
                                   IF c \in DOMAIN records[k] THEN records[k][c] ELSE NaN]]]]

\* df[col] = value: the column is added or overwritten in every row.
SetColumn(df, col, value) ==
    [cols |-> df.cols \cup {col},
     rows |-> [k \in DOMAIN df.rows |->
                 [label |-> df.rows[k].label,
                  cells |-> [c \in df.cols \cup {col} |->
                               IF c = col THEN value ELSE df.rows[k].cells[c]]]]]

\* df[col] = series: the column is added or overwritten, row k getting series[k].
AssignColumn(df, col, series) ==
    [cols |-> df.cols \cup {col},
     rows |-> [k \in DOMAIN df.rows |->
                 [label |-> df.rows[k].label,
                  cells |-> [c \in df.cols \cup {col} |->
                               IF c = col THEN series[k] ELSE df.rows[k].cells[c]]]]]

\* pd.to_numeric(df[col], errors='coerce'): the coerced column.
to_numeric_series(df, col) == [k \in DOMAIN df.rows |-> to_numeric(df.rows[k].cells[col])]

RECURSIVE Flatten(_)
Flatten(frames) ==
    IF frames = <<>> THEN <<>>
    ELSE Head(frames).rows \o Flatten(Tail(frames))

\* pd.concat(frames, ignore_index=True): rows in list order, columns the
\* union (NaN where a frame lacks one), labels renumbered 0..n-1.
concat(frames) ==
    LET cols == UNION { frames[k].cols : k \in DOMAIN frames }
        rows == Flatten(frames)
    IN  [cols |-> cols,
         rows |-> [k \in DOMAIN rows |->
                     [label |-> k - 1,
                      cells |-> [c \in cols |->
                                   IF c \in DOMAIN rows[k].cells THEN rows[k].cells[c]
                                   ELSE NaN]]]]

\* Lines 36-37 for the response to the request for indices[i].
IndexFrame(i, records) == SetColumn(DataFrame(records), "index", Str(indices[i]))

\* --------------------------------------------------- get_stock_data's body

\* What a call produces: a table, or the KeyError it raises.
Returned(df) == [ok |-> TRUE, df |-> df, err |-> ""]
Raised(df, e) == [ok |-> FALSE, df |-> df, err |-> e]

\* df[c] = pd.to_numeric(df[c], errors='coerce') (lines 51-58): reading a
\* column the frame does not have raises KeyError.
RequireNumeric(r, c) ==
    IF ~r.ok THEN r
    ELSE IF c \notin r.df.cols THEN Raised(r.df, "KeyError")
    ELSE Returned(AssignColumn(r.df, c, to_numeric_series(r.df, c)))

\* Mutant of OptionalColumn: the column is read without the test of lines
\* 61, 66 and 71.
OptionalColumnUnchecked(r, c) ==
    IF ~r.ok THEN r
    ELSE IF c \notin r.df.cols THEN Raised(r.df, "KeyError")
    ELSE Returned(AssignColumn(r.df, c, to_numeric_series(r.df, c)))

\* Lines 61-74: the column is coerced when the frame has it and is set to
\* None in every row when it has not.
OptionalColumn(r, c) ==
    IF ~r.ok THEN r
    ELSE IF c \in r.df.cols
         THEN Returned(AssignColumn(r.df, c, to_numeric_series(r.df, c)))
         ELSE Returned(SetColumn(r.df, c, None))

RECURSIVE CoerceRequired(_, _)
CoerceRequired(r, k) ==
    IF k > Len(RequiredNumeric) THEN r
    ELSE CoerceRequired(RequireNumeric(r, RequiredNumeric[k]), k + 1)

RECURSIVE CoerceOptional(_, _)
CoerceOptional(r, k) ==
    IF k > Len(OptionalNumeric) THEN r
    ELSE CoerceOptional(OptionalColumn(r, OptionalNumeric[k]), k + 1)

\* Line 77.
priceChange(cells) == Sub(cells["lastPrice"], cells["previousClose"])

\* Line 78.
percentageChange(cells) == Mul(Div(cells["priceChange"], cells["previousClose"]), Num(100))

\* Lines 77-78: the two derived columns, the second reading the first.
Metrics(r) ==
    IF ~r.ok THEN r
    ELSE LET changed == AssignColumn(r.df, "priceChange",
                           [k \in DOMAIN r.df.rows |-> priceChange(r.df.rows[k].cells)])
         IN  Returned(AssignColumn(changed, "percentageChange",
                         [k \in DOMAIN changed.rows |-> percentageChange(changed.rows[k].cells)]))

Perms(k) == { p \in [1..k -> 1..k] : \A i, j \in 1..k : i # j => p[i] # p[j] }

\* Mutant of sort_values: ascending=True.
sort_values_ascending(df, col) ==
    LET present == SelectSeq(df.rows, LAMBDA row : ~IsMissing(row.cells[col]))
        missing == SelectSeq(df.rows, LAMBDA row : IsMissing(row.cells[col]))
        m == Len(present)
        ascending == { p \in Perms(m) :
                         \A k \in 1..(m - 1) :
                            ~Less(present[p[k + 1]].cells[col], present[p[k]].cells[col]) }
    IN  { [cols |-> df.cols, rows |-> [k \in 1..m |-> present[p[k]]] \o missing] :
          p \in ascending }

\* Mutant of sort_values: the rows whose key is missing go through the
\* unstable sort with the others and come last in any order.
sort_values_missing_unordered(df, col) ==
    LET present == SelectSeq(df.rows, LAMBDA row : ~IsMissing(row.cells[col]))
        missing == SelectSeq(df.rows, LAMBDA row : IsMissing(row.cells[col]))
        m == Len(present)
        descending == { p \in Perms(m) :
                          \A k \in 1..(m - 1) :
                             ~Less(present[p[k]].cells[col], present[p[k + 1]].cells[col]) }
    IN  { [cols |-> df.cols,
           rows |-> [k \in 1..m |-> present[p[k]]]
                       \o [k \in 1..Len(missing) |-> missing[q[k]]]] :
          p \in descending, q \in Perms(Len(missing)) }

\* df.sort_values(by=col, ascending=False) (line 81): kind defaults to
\* 'quicksort', which is not stable, and na_position to 'last'.  The rows
\* whose key is present come in some descending order (any order among
\* equal keys), then the rows whose key is missing, in their original order.
\* The set of the outcomes a build can produce.
sort_values(df, col) ==
    LET present == SelectSeq(df.rows, LAMBDA row : ~IsMissing(row.cells[col]))
        missing == SelectSeq(df.rows, LAMBDA row : IsMissing(row.cells[col]))
        m == Len(present)
        descending == { p \in Perms(m) :
                          \A k \in 1..(m - 1) :
                             ~Less(present[p[k]].cells[col], present[p[k + 1]].cells[col]) }
    IN  { [cols |-> df.cols, rows |-> [k \in 1..m |-> present[p[k]]] \o missing] :
          p \in descending }

\* sorted_df[[...]] (lines 84-86): KeyError when a selected column is not
\* there; the rows keep their labels.
Project(df) ==
    IF ~(OutputColumns \subseteq df.cols) THEN Raised(df, "KeyError")
    ELSE Returned([cols |-> OutputColumns,
                   rows |-> [k \in DOMAIN df.rows |->
                               [label |-> df.rows[k].label,
                                cells |-> [c \in OutputColumns |-> df.rows[k].cells[c]]]]])

\* Lines 50-88 on the frame get_all_indices_data returned: the set of results
\* the call can have.
get_stock_data_body(df) ==
    LET r == Metrics(CoerceOptional(CoerceRequired(Returned(df), 1), 1))
    IN  IF ~r.ok THEN {r}
        ELSE { Project(sorted) : sorted \in sort_values(r.df, "yearHigh") }

\* df.to_dict('records'): the rows as dicts, labels dropped.
to_dict(df) == [k \in DOMAIN df.rows |-> df.rows[k].cells]

\* if selected_symbol: an empty string and None are both falsy.
Truthy(sel) == sel.t = "str" /\ sel.s # ""

\* Mutant of FilterBySymbol: the comparison inverted.
FilterBySymbolInverted(df, sel) ==
    [cols |-> df.cols,
     rows |-> SelectSeq(df.rows, LAMBDA row : row.cells["symbol"] # sel)]

\* df[df['symbol'] == selected_symbol] (line 166).
FilterBySymbol(df, sel) ==
    [cols |-> df.cols,
     rows |-> SelectSeq(df.rows, LAMBDA row : row.cells["symbol"] = sel)]

\* Lines 164-167.
update_table_result(df, sel) ==
    to_dict(IF Truthy(sel) THEN FilterBySymbol(df, sel) ELSE df)

\* ------------------------------------------------------ the provider's data

\* One record of a provider response carrying the eight required fields.
Quote(sym, yh, lp, pc) ==
    [symbol |-> Str(sym), totalTradedVolume |-> Num(1000), lastPrice |-> lp,
     previousClose |-> pc, open |-> Num(92), dayHigh |-> Num(97),
     dayLow |-> Num(89), yearHigh |-> yh, yearLow |-> Num(40)]

\* X: every field a number, the three optional fields included.
qX == Quote("X", Num(100), Num(95), Num(90))
        @@ [totalMktCap |-> Num(5000), pe |-> Num(20), vwap |-> Num(94)]
\* Y: yearHigh as numeric text, no optional field.
qY == Quote("Y", Str("150"), Num(50), Num(55))
\* X again with the same yearHigh, previousClose zero, pe not a number.
qZero == Quote("X", Num(100), Num(5), Num(0)) @@ [pe |-> Str("-")]
\* Z: yearHigh not a number, lastPrice null, previousClose the text "0".
qBad == Quote("Z", Str("-"), None, Str("0"))
\* A record with a symbol and nothing else.
qBare == [symbol |-> Str("W")]

\* The records a response may hold while the process runs (Spec) ...
LiveRows == {qX, qY}
\* ... and in the raw collections handed to the normalizer (SpecPipe).
PipeRows == {qX, qY, qZero, qBad, qBare}

SeqsUpTo(S, m) == UNION { [1..k -> S] : k \in 0..m }

\* What a dropdown can send as selected_symbol.
Selections == {None, Str(""), Str("X"), Str("Q")}

\* CACHE_TIMEOUT = 5 * 5 (line 20), in seconds.
CACHE_TIMEOUT == 5 * 5

EmptyFrame == [cols |-> {}, rows |-> <<>>]
NoResponse == [op |-> "none", sel |-> None, rows |-> <<>>, at |-> 0]
NoCall == [op |-> "none", sel |-> None]

\* ------------------------------------------------------------------- state

VARIABLES
    pc,        \* where the process is: "layout_options" (line 112),
               \* "layout_table" (line 149), "serving", "crashed"
    now,       \* the clock, in seconds
    memo,      \* flask-caching's entry for get_all_indices_data
    lru,       \* the slot of functools.lru_cache(maxsize=1)
    phase,     \* where the running get_stock_data call is: "idle",
               \* "fetching" (the loop of lines 33-38), "normalizing" (50-88)
    pending,   \* who made the running call, and its selected_symbol
    loop_i,    \* the position in indices of the next request
    all_data,  \* the list all_data (kept until the caller has its result)
    df,        \* the frame get_all_indices_data returned to get_stock_data
    requests,  \* the provider requests of the latest fetch cycle, in order
    cycles,    \* fetch cycles started
    resp       \* what the latest callback returned to its reader, and when

vars == << pc, now, memo, lru, phase, pending, loop_i, all_data, df,
           requests, cycles, resp >>

RowCount(frames) == Len(Flatten(frames))

Init ==
    /\ pc = "layout_options"
    /\ now = 0
    /\ memo = [full |-> FALSE, value |-> EmptyFrame, expires |-> 0]
    /\ lru = [full |-> FALSE, df |-> EmptyFrame]
    /\ phase = "idle"
    /\ pending = NoCall
    /\ loop_i = 0
    /\ all_data = <<>>
    /\ df = EmptyFrame
    /\ requests = <<>>
    /\ cycles = 0
    /\ resp = NoResponse

\* ----------------------------------------------------------------- actions

\* The caller goes on with the table get_stock_data returned: the layout
\* builds the dropdown options (line 112), then the table data (line 149);
\* update_table filters and returns the records; download_as_excel returns
\* the whole table as the spreadsheet's content.
Deliver(call, table) ==
    CASE call.op = "layout" ->
            /\ pc' = IF pc = "layout_options" THEN "layout_table" ELSE "serving"
            /\ resp' = resp
      [] call.op = "update_table" ->
            /\ pc' = pc
            /\ resp' = [op |-> "update_table", sel |-> call.sel,
                        rows |-> update_table_result(table, call.sel), at |-> now]
      [] call.op = "download_as_excel" ->
            /\ pc' = pc
            /\ resp' = [op |-> "download_as_excel", sel |-> None,
                        rows |-> to_dict(table), at |-> now]

\* An exception leaves get_stock_data: while the module is imported it ends
\* the process; in a callback Dash answers with an error and goes on.
Propagate ==
    /\ pc' = IF pending.op = "layout" THEN "crashed" ELSE pc
    /\ phase' = "idle"
    /\ pending' = NoCall
    /\ loop_i' = 0
    /\ all_data' = <<>>
    /\ df' = EmptyFrame

\* The calls that can be made in this state.
Calls ==
    IF phase # "idle" THEN {}
    ELSE IF pc \in {"layout_options", "layout_table"} THEN {[op |-> "layout", sel |-> None]}
    ELSE IF pc = "serving"
         THEN { [op |-> "update_table", sel |-> x] : x \in Selections }
              \cup {[op |-> "download_as_excel", sel |-> None]}
    ELSE {}

\* flask-caching serves an entry until it expires.
MemoValid == memo.full /\ memo.expires > now

\* get_stock_data() finds the lru_cache slot filled: the cached table is
\* returned, nothing is fetched or computed.
CachedCall(call) ==
    /\ call \in Calls
    /\ lru.full
    /\ Deliver(call, lru.df)
    /\ UNCHANGED << now, memo, lru, phase, pending, loop_i, all_data, df, requests, cycles >>

\* The layout's calls (lines 112, 149).
LayoutCall ==
    /\ pc \in {"layout_options", "layout_table"}
    /\ CachedCall([op |-> "layout", sel |-> None])

\* update_table(selected_symbol, n) (lines 163-167).
UpdateTable ==
    /\ pc = "serving"
    /\ \E x \in Selections : CachedCall([op |-> "update_table", sel |-> x])

\* download_as_excel(n_clicks) (lines 175-177).
DownloadAsExcel ==
    /\ pc = "serving"
    /\ CachedCall([op |-> "download_as_excel", sel |-> None])

\* get_stock_data() finds the slot empty and calls get_all_indices_data():
\* a memoized frame that has not expired is returned at once, otherwise the
\* loop over indices starts.
StartCall ==
    \E call \in Calls :
        /\ ~lru.full
        /\ pending' = call
        /\ IF MemoValid
           THEN /\ phase' = "normalizing"
                /\ df' = memo.value
                /\ UNCHANGED << loop_i, all_data, requests, cycles >>
           ELSE /\ cycles < MaxCycles
                /\ phase' = "fetching"
                /\ loop_i' = 1
                /\ all_data' = <<>>
                /\ requests' = <<>>
                /\ cycles' = cycles + 1
                /\ df' = df
        /\ UNCHANGED << pc, now, memo, lru, resp >>

\* Mutant of FetchIndex: the request is sent again before its answer is used.
FetchIndexTwice ==
    /\ phase = "fetching"
    /\ loop_i <= Len(indices)
    /\ \E records \in SeqsUpTo(LiveRows, MaxRows - RowCount(all_data)) :
          all_data' = Append(all_data, IndexFrame(loop_i, records))
    /\ requests' = requests \o << loop_i, loop_i >>
    /\ loop_i' = loop_i + 1
    /\ UNCHANGED << pc, now, memo, lru, phase, pending, df, cycles, resp >>

\* One turn of the loop (lines 33-38): the request for indices[loop_i] is
\* answered with some records.
FetchIndex ==
    /\ phase = "fetching"
    /\ loop_i <= Len(indices)
    /\ \E records \in SeqsUpTo(LiveRows, MaxRows - RowCount(all_data)) :
          all_data' = Append(all_data, IndexFrame(loop_i, records))
    /\ requests' = Append(requests, loop_i)
    /\ loop_i' = loop_i + 1
    /\ UNCHANGED << pc, now, memo, lru, phase, pending, df, cycles, resp >>

\* Mutant of FetchFail: the failure is swallowed and the loop goes on with
\* the next index.
FetchFailSkipsIndex ==
    /\ phase = "fetching"
    /\ loop_i <= Len(indices)
    /\ requests' = Append(requests, loop_i)
    /\ loop_i' = loop_i + 1
    /\ UNCHANGED << pc, now, memo, lru, phase, pending, all_data, df, cycles, resp >>

\* The request for indices[loop_i] raises (line 35 or 36): nothing catches
\* it, so get_all_indices_data, get_stock_data and the caller are left.
FetchFail ==
    /\ phase = "fetching"
    /\ loop_i <= Len(indices)
    /\ requests' = Append(requests, loop_i)
    /\ Propagate
    /\ UNCHANGED << now, memo, lru, cycles, resp >>

\* The loop is over (lines 40-43): the frames are concatenated and the
\* result is memoized for CACHE_TIMEOUT seconds and returned.
FetchDone ==
    /\ phase = "fetching"
    /\ loop_i > Len(indices)
    /\ df' = concat(all_data)
    /\ memo' = [full |-> TRUE, value |-> concat(all_data), expires |-> now + CACHE_TIMEOUT]
    /\ phase' = "normalizing"
    /\ UNCHANGED << pc, now, lru, pending, loop_i, all_data, requests, cycles, resp >>

\* Mutant of NormalizeReturn: get_stock_data without the lru_cache decorator.
NormalizeReturnUncached ==
    /\ phase = "normalizing"
    /\ \E out \in get_stock_data_body(df) :
          /\ out.ok
          /\ Deliver(pending, out.df)
    /\ phase' = "idle"
    /\ pending' = NoCall
    /\ loop_i' = 0
    /\ all_data' = <<>>
    /\ df' = EmptyFrame
    /\ UNCHANGED << now, memo, lru, requests, cycles >>

\* Lines 50-88 return a table: lru_cache stores it and the caller goes on.
NormalizeReturn ==
    /\ phase = "normalizing"
    /\ \E out \in get_stock_data_body(df) :
          /\ out.ok
          /\ lru' = [full |-> TRUE, df |-> out.df]
          /\ Deliver(pending, out.df)
    /\ phase' = "idle"
    /\ pending' = NoCall
    /\ loop_i' = 0
    /\ all_data' = <<>>
    /\ df' = EmptyFrame
    /\ UNCHANGED << now, memo, requests, cycles >>

\* Lines 50-88 raise KeyError: lru_cache stores nothing.
NormalizeRaise ==
    /\ phase = "normalizing"
    /\ \E out \in get_stock_data_body(df) : ~out.ok
    /\ Propagate
    /\ UNCHANGED << now, memo, lru, requests, cycles, resp >>

\* Time passes.
Tick ==
    /\ pc # "crashed"
    /\ now + TickSeconds <= MaxTime
    /\ now' = now + TickSeconds
    /\ UNCHANGED << pc, memo, lru, phase, pending, loop_i, all_data, df, requests, cycles, resp >>

Next ==
    \/ LayoutCall
    \/ UpdateTable
    \/ DownloadAsExcel
    \/ StartCall
    \/ FetchIndex
    \/ FetchFail
    \/ FetchDone
    \/ NormalizeReturn
    \/ NormalizeRaise
    \/ Tick

Spec == Init /\ [][Next]_vars

\* The normalizer on its own: the loop has just collected the responses to
\* the 11 requests of the import-time call, and they are any frames built
\* from at most MaxPipeRows records of PipeRows.
\* The records sent for indices[i] when records[k] is sent for indices[at[k]].
Batch(records, at, i) ==
    LET before == Cardinality({ k \in DOMAIN at : at[k] < i })
        size == Cardinality({ k \in DOMAIN at : at[k] = i })
    IN  [k \in 1..size |-> records[before + k]]

\* The ways to spread m records over the requests, in request order.
Spreads(m) ==
    { at \in [1..m -> 1..Len(indices)] : \A k \in 1..(m - 1) : at[k] <= at[k + 1] }

InitPipe ==
    /\ pc = "layout_options"
    /\ now = 0
    /\ memo = [full |-> FALSE, value |-> EmptyFrame, expires |-> 0]
    /\ lru = [full |-> FALSE, df |-> EmptyFrame]
    /\ phase = "fetching"
    /\ pending = [op |-> "layout", sel |-> None]
    /\ loop_i = Len(indices) + 1
    /\ \E m \in 0..MaxPipeRows :
          \E records \in [1..m -> PipeRows] :
             \E at \in Spreads(m) :
                all_data = [i \in 1..Len(indices) |-> IndexFrame(i, Batch(records, at, i))]
    /\ df = EmptyFrame
    /\ requests = [k \in 1..Len(indices) |-> k]
    /\ cycles = 1
    /\ resp = NoResponse

NextPipe ==
    \/ FetchDone
    \/ NormalizeReturn
    \/ NormalizeRaise

SpecPipe == InitPipe /\ [][NextPipe]_vars

\* ------------------------------------------------------------------ claims

\* The rows of the cached table, and of the memoized raw frame it was built from.
Table == lru.df.rows
Raw == memo.value.rows
YearHigh(row) == row.cells["yearHigh"]
AllRequests == [k \in 1..Len(indices) |-> k]

\* The position in indices of a row's 'index' cell.
IndexPosition(row) == CHOOSE i \in 1..Len(indices) : Str(indices[i]) = row.cells["index"]

\* C1: no read serves a table whose fetch is older than the 25-second cache
\* window: every response of update_table or download_as_excel is returned
\* before the memoized fetch it was built from has expired.
C1_StalenessBoundedByCacheWindow ==
    resp.op # "none" => (memo.full /\ resp.at < memo.expires)

\* A step in which a provider request was issued and no frame came back.
RequestFailed ==
    /\ requests' # requests
    /\ requests' # <<>>
    /\ Len(all_data') # Len(requests')

\* C2: a provider request that fails aborts the whole cycle: the call is left
\* with no further request, nothing is memoized, cached or returned to a
\* reader, and what was memoized before stays; a frame is memoized only when
\* all 11 requests were answered, and it holds all 11 responses; a table is
\* cached only from such a frame; a reader is only given rows of a cached table.
C2_FailedRequestAbortsCycle ==
    [][ /\ RequestFailed =>
             /\ phase' = "idle"
             /\ memo' = memo
             /\ lru' = lru
             /\ resp' = resp
             /\ cycles' = cycles
        /\ memo' # memo =>
             /\ requests = AllRequests
             /\ Len(all_data) = Len(indices)
             /\ memo'.full
             /\ memo'.value = concat(all_data)
        /\ lru' # lru => (memo'.full /\ df = memo'.value /\ lru'.full)
        /\ resp' # resp => lru'.full
      ]_vars

\* The third request of the import-time cycle failed after two answers.
C2_Witness ==
    /\ pc = "crashed"
    /\ requests = <<1, 2, 3>>
    /\ ~memo.full
    /\ ~lru.full
    /\ resp = NoResponse

\* C3: the returned table is ordered by yearHigh descending: of two adjacent
\* rows with yearHigh present the earlier is >= the later, and every row with
\* yearHigh missing comes after every row with yearHigh present.
C3_SortedByYearHighDescending ==
    lru.full =>
        \A i, j \in DOMAIN Table :
            i < j =>
               /\ (j = i + 1 /\ ~IsMissing(YearHigh(Table[i])) /\ ~IsMissing(YearHigh(Table[j])))
                     => ~Less(YearHigh(Table[i]), YearHigh(Table[j]))
               /\ IsMissing(YearHigh(Table[i])) => IsMissing(YearHigh(Table[j]))

\* The sort moved a row up: a row with the greater yearHigh that came later in
\* the raw collection is first in the table.
C3_Witness ==
    /\ lru.full
    /\ \E i, j \in DOMAIN Table :
          /\ i < j
          /\ Table[i].label > Table[j].label
          /\ ~IsMissing(YearHigh(Table[i]))
          /\ ~IsMissing(YearHigh(Table[j]))
          /\ Less(YearHigh(Table[j]), YearHigh(Table[i]))

\* The labels are the concatenation order: position in the raw frame, which
\* lists the responses in index-list order and each response in its own order.
LabelsAreConcatenationOrder ==
    /\ \A k \in DOMAIN Raw : Raw[k].label = k - 1
    /\ \A k, m \in DOMAIN Raw : k < m => IndexPosition(Raw[k]) <= IndexPosition(Raw[m])
    /\ \A k \in DOMAIN Table :
          /\ Table[k].label + 1 \in DOMAIN Raw
          /\ Table[k].cells["symbol"] = Raw[Table[k].label + 1].cells["symbol"]
          /\ Table[k].cells["index"] = Raw[Table[k].label + 1].cells["index"]
    /\ \A k, m \in DOMAIN Table : k # m => Table[k].label # Table[m].label

\* C4 as stated: the sort is stable: two rows with equal yearHigh, and two
\* rows with yearHigh missing, keep their concatenation order.
C4_SortIsStable ==
    lru.full =>
        /\ LabelsAreConcatenationOrder
        /\ \A i, j \in DOMAIN Table :
              (i < j /\ (YearHigh(Table[i]) = YearHigh(Table[j])
                         \/ (IsMissing(YearHigh(Table[i])) /\ IsMissing(YearHigh(Table[j])))))
                 => Table[i].label < Table[j].label

\* C4 amended: two rows with yearHigh missing keep their concatenation order
\* (index-list order, then response order); every row of the raw collection
\* is in the table once.
C4_MissingRowsKeepOrder ==
    lru.full =>
        /\ LabelsAreConcatenationOrder
        /\ Len(Table) = Len(Raw)
        /\ \A i, j \in DOMAIN Table :
              (i < j /\ IsMissing(YearHigh(Table[i])) /\ IsMissing(YearHigh(Table[j])))
                 => Table[i].label < Table[j].label

\* Two rows with yearHigh missing, from different indices, are in the table.
C4_Witness ==
    /\ lru.full
    /\ \E i, j \in DOMAIN Table :
          /\ i < j
          /\ IsMissing(YearHigh(Table[i]))
          /\ IsMissing(YearHigh(Table[j]))
          /\ Table[i].cells["index"] # Table[j].cells["index"]

\* C5: percentageChange is the missing-value marker whenever previousClose is
\* missing or zero, and a number only when previousClose is present and not zero.
C5_PercentageChangeMissingOnZeroClose ==
    lru.full =>
        \A k \in DOMAIN Table :
            LET close == Table[k].cells["previousClose"]
                pct == Table[k].cells["percentageChange"]
            IN  /\ (IsMissing(close) \/ close = Num(0)) => IsMissing(pct)
                /\ ~IsMissing(pct) => (close.t = "num" /\ close.n # 0)

\* The frame, and the row in it, that the raw row labelled `label` came from.
RECURSIVE SourceOf(_, _, _)
SourceOf(frames, i, label) ==
    IF label < Len(frames[i].rows)
    THEN [frame |-> frames[i], row |-> frames[i].rows[label + 1]]
    ELSE SourceOf(frames, i + 1, label - Len(frames[i].rows))

\* A column some response has.
Delivered(frames, c) == \E i \in DOMAIN frames : c \in frames[i].cols

\* C6: whichever responses have or lack totalMktCap, pe and vwap, the
\* normalizer does not fail because of them (it returns whenever some
\* response has each column it reads unconditionally), and every row of the
\* table has the three fields: the missing-value marker in a row from a
\* response that lacks the field, the coerced value in a row from a response
\* that has it.
C6_OptionalFieldsNeverFail ==
    [][ phase = "normalizing" =>
          /\ (\A c \in Range(RequiredNumeric) \cup {"symbol"} : Delivered(all_data, c))
                => lru'.full
          /\ lru'.full =>
                \A k \in DOMAIN lru'.df.rows :
                   \A f \in Range(OptionalNumeric) :
                      LET row == lru'.df.rows[k]
                          src == SourceOf(all_data, 1, row.label)
                      IN  /\ f \in DOMAIN row.cells
                          /\ IF f \in src.frame.cols
                             THEN row.cells[f] = to_numeric(src.row.cells[f])
                             ELSE IsMissing(row.cells[f])
      ]_vars

\* One response had pe and another had not: a row with a pe and a row without.
C6_Witness ==
    /\ lru.full
    /\ \E i, j \in DOMAIN Table :
          /\ Table[i].cells["pe"].t = "num"
          /\ IsMissing(Table[j].cells["pe"])
          /\ IsMissing(Table[j].cells["vwap"])
          /\ Table[j].cells["lastPrice"].t = "num"

\* C7: the normalizer never propagates an error: once a fetch has succeeded
\* with some records and the call is over, the table is there, and in each row every required
\* field whose source value is not a number or is absent is the
\* missing-value marker.
C7_NormalizerNeverRaises ==
    (memo.full /\ phase = "idle" /\ Len(Raw) > 0) =>
        /\ lru.full
        /\ \A k \in DOMAIN Table :
              \A c \in Range(RequiredNumeric) \cap OutputColumns :
                 LET src == Raw[Table[k].label + 1].cells
                 IN  (c \notin DOMAIN src \/ to_numeric(src[c]) = NaN)
                        => IsMissing(Table[k].cells[c])

\* C8: the requests of a cycle are one per index in list order (a prefix of
\* it while the loop runs or when it was aborted), all 11 once the frame is
\* memoized; no step made within the cache window of a successful fetch
\* issues a request or starts a cycle.
C8_OneRequestPerIndexAndNoneInWindow ==
    [][ /\ Len(requests') <= Len(indices)
        /\ \A k \in DOMAIN requests' : requests'[k] = k
        /\ memo'.full => requests' = AllRequests
        /\ (memo.full /\ memo.expires > now) =>
              (requests' = requests /\ cycles' = cycles)
      ]_vars

\* A callback answered within the window of the fetch, which made 11 requests.
C8_Witness ==
    /\ pc = "serving"
    /\ resp.op = "update_table"
    /\ resp.at < memo.expires
    /\ resp.at > 0
    /\ requests = AllRequests

\* The records of the rows whose symbol is x, in order.
RECURSIVE RecordsOf(_, _)
RecordsOf(rows, x) ==
    IF rows = <<>> THEN <<>>
    ELSE (IF Head(rows).cells["symbol"].s = x THEN << Head(rows).cells >> ELSE <<>>)
            \o RecordsOf(Tail(rows), x)

\* C9: update_table returns the rows of the table whose symbol is the
\* selected one, in table order, or every row when nothing is selected;
\* download_as_excel returns every row; no step of the serving process
\* changes the cached table or the memoized frame.
C9_FilterIsExactAndReadsChangeNothing ==
    [][ /\ resp'.op = "update_table" =>
              resp'.rows = IF resp'.sel \in {None, Str("")}
                           THEN [k \in DOMAIN lru'.df.rows |-> lru'.df.rows[k].cells]
                           ELSE RecordsOf(lru'.df.rows, resp'.sel.s)
        /\ resp'.op = "download_as_excel" =>
              resp'.rows = [k \in DOMAIN lru'.df.rows |-> lru'.df.rows[k].cells]
        /\ pc = "serving" => (lru' = lru /\ memo' = memo)
      ]_vars

\* A selection that kept some rows of the table and dropped others.
C9_Witness ==
    /\ resp.op = "update_table"
    /\ resp.sel = Str("X")
    /\ Len(resp.rows) = 1
    /\ Len(Table) = 2

====
